---- MODULE Spec2Model ----
(***************************************************************************)
(* GPU-resident model scheduling in the Mycosoft website repository.       *)
(*                                                                         *)
(*   - services/model-orchestrator/orchestrator.py: the Earth-2 model      *)
(*     orchestrator (scale_up_model, scale_down_model, evict_idle_models,  *)
(*     auto_scale_down, model_heartbeat) over a 32 GB VRAM budget.         *)
(*   - services/earth2-inference/inference_server.py: the in-process       *)
(*     ModelManager (get_model, _ensure_memory_available, unload_model)    *)
(*     and the InferenceEngine (run_forecast under a semaphore).           *)
(*                                                                         *)
(* Both are asyncio programs: a coroutine runs without                     *)
(* interruption until it awaits real I/O (the Kubernetes PATCH issued by   *)
(* scale_deployment, asyncio.to_thread), asyncio.sleep or a semaphore that *)
(* is taken.  Every action below is one such                               *)
(* uninterrupted segment of a handler; the gateway's answer is an input    *)
(* of the segment that resumes after the await.                            *)
(*                                                                         *)
(* Time is counted in ticks of TickMinutes minutes; every datetime the     *)
(* code stores is the tick at which utcnow() was read.                     *)
(***************************************************************************)
EXTENDS Integers, Sequences, FiniteSets, Bags, TLC

---------------------------------------------------------------------------
(* Bounds of the model                                                     *)

MaxTime == 3            \* the clock stops after this many ticks
MaxTasks == 2           \* handlers suspended on a gateway call at once
MaxTimers == 2          \* auto_scale_down tasks alive at once
TimeoutTicks == 2       \* timeout_minutes of a request, in ticks
TickMinutes == 5        \* minutes per tick of the clock
MaxRuns == 3            \* POST /forecast requests queued or with a run record
MaxEngineTime == 1      \* the clock of the inference server stops after this
MaxSvcTime == 16        \* the service manager's monitor stops after this tick
max_restarts == 2       \* ServiceConfig.max_restarts of the managed service
restart_window == 4     \* ServiceConfig.restart_window, in ticks of 5 seconds

---------------------------------------------------------------------------
(* orchestrator.py: registry and constants                                 *)

ALWAYS_ON == "always-on"
ON_DEMAND == "on-demand"

MODELS ==
  [ fcn3               |-> [tier |-> ALWAYS_ON, vram_gb |-> 8],
    stormscope         |-> [tier |-> ALWAYS_ON, vram_gb |-> 6],
    atlas              |-> [tier |-> ON_DEMAND, vram_gb |-> 12],
    corrdiff           |-> [tier |-> ON_DEMAND, vram_gb |-> 14],
    pangu              |-> [tier |-> ON_DEMAND, vram_gb |-> 16],
    aurora             |-> [tier |-> ON_DEMAND, vram_gb |-> 20],
    fuxi               |-> [tier |-> ON_DEMAND, vram_gb |-> 14],
    graphcast          |-> [tier |-> ON_DEMAND, vram_gb |-> 20],
    stormcast          |-> [tier |-> ON_DEMAND, vram_gb |-> 16],
    precipitation_afno |-> [tier |-> ON_DEMAND, vram_gb |-> 10],
    sfno               |-> [tier |-> ON_DEMAND, vram_gb |-> 12],
    tc_tracker         |-> [tier |-> ON_DEMAND, vram_gb |-> 8] ]

MAX_VRAM_GB == 32

IDLE_THRESHOLD_MINUTES == 10

\* An id that is not a key of MODELS.
UnknownId == "unknown"

\* The clients of specification Spec: two on-demand models that do not fit
\* the budget together, and an id the registry does not know.
ScaleIds == {"aurora", "graphcast", UnknownId}
HeartbeatIds == {"aurora", "graphcast"}

\* The clients of specification SpecTiers: the two always-on models and one
\* on-demand model that does not fit beside them.
TierScaleIds == {"fcn3", "stormscope", "aurora"}
TierHeartbeatIds == {"aurora"}

\* The clients of specification SpecPair: two on-demand models that fit the
\* budget together.
PairScaleIds == {"atlas", "corrdiff"}
PairHeartbeatIds == {"atlas", "corrdiff"}

TimeoutChoices == { TimeoutTicks * TickMinutes }

---------------------------------------------------------------------------
VARIABLES
  now,            \* datetime.utcnow(), in ticks
  active_models,  \* keys of state.active_models
  last_activity,  \* state.last_activity: <<[id, t]>> in dict insertion order
  timers,         \* bag of sleeping auto_scale_down tasks
  tasks,          \* handlers suspended on scale_deployment
  idle_timeout,   \* timeout_minutes of the request that activated an active model
  resp,           \* the HTTP response the last step produced, if any
  loaded_models,  \* keys of model_manager.loaded_models
  model_metadata, \* model_manager.model_metadata, in dict insertion order
  sem_value,      \* inference_engine.semaphore: permits left
  sem_waiters,    \* run_forecast calls queued on the semaphore, oldest first
  run_counter,    \* inference_engine.run_counter
  active_runs,    \* inference_engine.active_runs, in dict insertion order
  svc_time,       \* time.time() of the service manager, in ticks of 5 seconds
  running,        \* service_manager.running
  processes,      \* processes[name]: "absent", or the Popen "alive" or "exited"
  restart_counts, \* service_manager.restart_counts[name]
  last_restart,   \* service_manager.last_restart[name]
  svc_log         \* the start and giving-up lines the manager has logged

orchVars ==
  << now, active_models, last_activity, timers, tasks, idle_timeout, resp >>

engVars ==
  << loaded_models, model_metadata, sem_value, sem_waiters, run_counter,
     active_runs >>

svcVars ==
  << svc_time, running, processes, restart_counts, last_restart, svc_log >>

vars == << orchVars, engVars, svcVars >>

---------------------------------------------------------------------------
(* state.last_activity, a Python dict: insertion-ordered, update in place  *)

LaIndex(la, id) ==
  IF \E i \in 1..Len(la) : la[i].id = id
  THEN CHOOSE i \in 1..Len(la) : la[i].id = id
  ELSE 0

LaHas(la, id) == LaIndex(la, id) # 0

LaGet(la, id) == la[LaIndex(la, id)].t

LaSet(la, id, t) ==
  IF LaHas(la, id)
  THEN [la EXCEPT ![LaIndex(la, id)].t = t]
  ELSE Append(la, [id |-> id, t |-> t])

LaKeys(la) == { la[i].id : i \in 1..Len(la) }

---------------------------------------------------------------------------
(* Pure functions of orchestrator.py                                       *)

RECURSIVE SumVram(_)
SumVram(S) ==
  IF S = {} THEN 0
  ELSE LET m == CHOOSE x \in S : TRUE
       IN  (IF m \in DOMAIN MODELS THEN MODELS[m].vram_gb ELSE 0)
             + SumVram(S \ {m})

\* get_available_vram
GetAvailableVram(act) == MAX_VRAM_GB - SumVram(act)

\* can_schedule_model, comparing the need with the whole budget instead of
\* with what is available
CanScheduleAgainstTotal(act, m) ==
  /\ m \in DOMAIN MODELS
  /\ MODELS[m].vram_gb <= MAX_VRAM_GB

\* can_schedule_model
CanSchedule(act, m) ==
  /\ m \in DOMAIN MODELS
  /\ MODELS[m].vram_gb <= GetAvailableVram(act)

\* MODELS.get(model_id, ModelConfig("", 0, ModelTier.ALWAYS_ON, 0)).tier
TierOf(m) == IF m \in DOMAIN MODELS THEN MODELS[m].tier ELSE ALWAYS_ON

\* list.sort(key=lambda x: x[1]): a stable sort on the time stamp
RECURSIVE SortByTime(_)
SortByTime(s) ==
  IF s = <<>> THEN <<>>
  ELSE LET x == Head(s)
           r == SortByTime(Tail(s))
           k == Cardinality({ i \in 1..Len(r) : r[i].t < x.t })
       IN  SubSeq(r, 1, k) \o <<x>> \o SubSeq(r, k + 1, Len(r))

\* The filter of evict_idle_models with >= in place of > idle_threshold
IsIdleCandidateAtThreshold(act, e, t) ==
  /\ e.id \in act
  /\ TierOf(e.id) = ON_DEMAND
  /\ (t - e.t) * TickMinutes >= IDLE_THRESHOLD_MINUTES

\* The filter of evict_idle_models' list comprehension.
IsIdleCandidate(act, e, t) ==
  /\ e.id \in act
  /\ TierOf(e.id) = ON_DEMAND
  /\ (t - e.t) * TickMinutes > IDLE_THRESHOLD_MINUTES

\* idle_models of evict_idle_models, as the list of model ids
IdleModels(act, la, t) ==
  LET sorted == SortByTime(SelectSeq(la, LAMBDA e : IsIdleCandidate(act, e, t)))
  IN  [ i \in 1..Len(sorted) |-> sorted[i].id ]

\* asyncio.sleep(minutes * 60), in ticks
SleepTicks(minutes) == (minutes + TickMinutes - 1) \div TickMinutes

\* (datetime.utcnow() - last_activity).total_seconds() / 60
ElapsedMinutes(la, m, t) == (t - LaGet(la, m)) * TickMinutes

---------------------------------------------------------------------------
(* Suspended handlers                                                      *)

NoTask ==
  [ kind |-> "none", pc |-> "none", model |-> "", timeout |-> 0,
    victims |-> <<>>, freed |-> 0, pre |-> {} ]

\* kind "up":   scale_up_model,   pc "evict" (awaiting the scale-down of
\*              Head(victims)) or "scale" (awaiting scale_deployment(name, 1));
\*              pre is the active set the request found (ghost)
\* kind "down": scale_down_model called by POST /scale, awaiting the gateway
\* kind "reap": scale_down_model called by auto_scale_down, awaiting the gateway
UpTask(m, tmo, pc, victims, freed, pre) ==
  [ kind |-> "up", pc |-> pc, model |-> m, timeout |-> tmo,
    victims |-> victims, freed |-> freed, pre |-> pre ]

DownTask(kind, m) ==
  [ kind |-> kind, pc |-> "scale", model |-> m, timeout |-> 0,
    victims |-> <<>>, freed |-> 0, pre |-> {} ]

Slots == DOMAIN tasks

HasFreeSlot == \E i \in Slots : tasks[i].kind = "none"

FreeSlot == CHOOSE i \in Slots :
              /\ tasks[i].kind = "none"
              /\ \A j \in Slots : j < i => tasks[j].kind # "none"

\* Every scale_up_model in flight may still create one auto_scale_down task.
TimerBudget ==
  BagCardinality(timers)
    + Cardinality({ i \in Slots : tasks[i].kind = "up" }) < MaxTimers

\* idle_timeout once the active set has become act.
Forget(it, act) == [ x \in DOMAIN it \cap act |-> it[x] ]

Response(op, m, code, pre) ==
  [ op |-> op, model |-> m, code |-> code, pre |-> pre ]

NoResponse == Response("none", "", 0, {})

\* scale_down_model without its early return for ALWAYS_ON models
ScaleDownRefusesUnknownOnly(m) ==
  m \notin DOMAIN MODELS

\* scale_down_model returns False before it reaches scale_deployment.
ScaleDownRefuses(m) ==
  \/ m \notin DOMAIN MODELS
  \/ MODELS[m].tier = ALWAYS_ON

\* The loop of evict_idle_models runs on, without suspending, over the
\* victims scale_down_model refuses; what is left starts with the victim
\* whose scale-down call is awaited.
RECURSIVE NextVictims(_)
NextVictims(vs) ==
  IF vs = <<>> THEN <<>>
  ELSE IF ScaleDownRefuses(Head(vs)) THEN NextVictims(Tail(vs))
  ELSE vs

---------------------------------------------------------------------------
(* inference_server.py: constants and the ModelManager                     *)

\* Settings.max_concurrent_runs
max_concurrent_runs == 2

\* The Earth2ModelType values _load_model has a branch for.
SupportedTypes ==
  {"fcn3", "atlas", "pangu", "fourcastnet", "corrdiff", "stormscope", "aurora"}

\* The clients of specification SpecEngine: forecasts on fcn3, and the
\* load and unload endpoints for fcn3 and atlas.
ForecastModels == {"fcn3"}
EngineModels == {"fcn3", "atlas"}

\* The places where run_forecast can raise before its first suspension:
\* in datetime.fromisoformat, in get_model, in fetch_initial_conditions.
FailChoices == {"none", "parse", "load", "source"}

\* model_metadata is a Python dict, <<[name, loaded, last_used]>> in
\* insertion order.
MetaIndex(meta, name) ==
  IF \E i \in 1..Len(meta) : meta[i].name = name
  THEN CHOOSE i \in 1..Len(meta) : meta[i].name = name
  ELSE 0

\* model_metadata[name] = ModelStatus(name, loaded=True, last_used=t)
MetaPut(meta, name, t) ==
  LET e == [name |-> name, loaded |-> TRUE, last_used |-> t]
  IN  IF MetaIndex(meta, name) # 0
      THEN [meta EXCEPT ![MetaIndex(meta, name)] = e]
      ELSE Append(meta, e)

\* sorted(model_metadata.items(), key=last_used): a stable sort
RECURSIVE SortByLastUsed(_)
SortByLastUsed(s) ==
  IF s = <<>> THEN <<>>
  ELSE LET x == Head(s)
           r == SortByLastUsed(Tail(s))
           k == Cardinality({ i \in 1..Len(r) : r[i].last_used < x.last_used })
       IN  SubSeq(r, 1, k) \o <<x>> \o SubSeq(r, k + 1, Len(r))

\* The model manager as a value: [loaded, meta].
\* unload_model
UnloadModel(mm, name) ==
  IF name \in mm.loaded
  THEN [ loaded |-> mm.loaded \ {name},
         meta   |-> IF MetaIndex(mm.meta, name) # 0
                    THEN [mm.meta EXCEPT ![MetaIndex(mm.meta, name)].loaded = FALSE]
                    ELSE mm.meta ]
  ELSE mm

RECURSIVE UnloadEach(_, _)
UnloadEach(mm, names) ==
  IF names = <<>> THEN mm
  ELSE UnloadEach(UnloadModel(mm, Head(names)), Tail(names))

\* The loaded models in the order _ensure_memory_available visits them.
LruLoaded(mm) ==
  LET sorted == SelectSeq(SortByLastUsed(mm.meta), LAMBDA e : e.name \in mm.loaded)
  IN  [ i \in 1..Len(sorted) |-> sorted[i].name ]

\* _ensure_memory_available.  What torch.cuda.mem_get_info reports is the
\* environment's: the loop unloads the k least recently used loaded models,
\* k = 0 when the first reading suffices, k = all of them when no reading
\* does (always so without CUDA, where the reading is 0).
EnsureMemoryAvailable(mm, k) ==
  UnloadEach(mm, SubSeq(LruLoaded(mm), 1, k))

\* get_model; ok tells whether _load_model returns a model or raises.
GetModel(mm, m, k, ok, t) ==
  IF m \in mm.loaded
  THEN [ loaded |-> mm.loaded,
         meta   |-> [mm.meta EXCEPT ![MetaIndex(mm.meta, m)].last_used = t],
         ok     |-> TRUE ]
  ELSE LET e == EnsureMemoryAvailable(mm, k)
       IN  IF ok /\ m \in SupportedTypes
           THEN [ loaded |-> e.loaded \cup {m},
                  meta   |-> MetaPut(e.meta, m, t),
                  ok     |-> TRUE ]
           ELSE [ loaded |-> e.loaded, meta |-> e.meta, ok |-> FALSE ]

ModelManager == [ loaded |-> loaded_models, meta |-> model_metadata ]

\* asyncio.Semaphore, with a guard that never blocks
SemNeverLocked(v) == FALSE

\* asyncio.Semaphore: acquire() has to wait
SemLocked(v) == v <= 0

\* active_runs is a Python dict keyed by run_id.
RunsPut(runs, rec) ==
  IF \E i \in 1..Len(runs) : runs[i].run_id = rec.run_id
  THEN [runs EXCEPT ![CHOOSE i \in 1..Len(runs) : runs[i].run_id = rec.run_id] = rec]
  ELSE Append(runs, rec)

\* A run_id made of the time stamp alone
RunIdTimeOnly(n, t) == << "forecast", 0, t >>

\* f"forecast-{run_counter:06d}-{utcnow:%Y%m%d%H%M%S}"
RunId(n, t) == << "forecast", n, t >>

RunningRuns == { i \in 1..Len(active_runs) : active_runs[i].status = "running" }

\* What POST /forecast has answered for the run of a record: nothing while
\* run_forecast is suspended, the InferenceResult (with its run_id) once it
\* has returned, HTTPException(500) once it has raised.
ForecastAnswer(rec) ==
  IF rec.status = "running" THEN [ code |-> 0, run_id |-> << >> ]
  ELSE IF rec.status = "completed" THEN [ code |-> 200, run_id |-> rec.run_id ]
  ELSE [ code |-> 500, run_id |-> << >> ]

\* ModelManager.__init__ and InferenceEngine.__init__
EngineInit ==
  /\ loaded_models = {}
  /\ model_metadata = <<>>
  /\ sem_value = max_concurrent_runs
  /\ sem_waiters = <<>>
  /\ run_counter = 0
  /\ active_runs = <<>>

---------------------------------------------------------------------------
(* service_manager.py: one registered service                              *)

restart_delay == 1      \* ServiceConfig.restart_delay: 5 seconds
MonitorSleep == 2       \* time.sleep(10) at the end of a monitor pass
StopTicks == 0..1       \* stop_service waits up to 5 seconds for the process

\* A restart is allowed while the counter is at most max_restarts
UnderRestartLimitInclusive(count) == count <= max_restarts

\* self.restart_counts[name] < config.max_restarts
UnderRestartLimit(count) == count < max_restarts

\* now - self.last_restart[name] > config.restart_window
WindowExpired(t, last) == t - last > restart_window

\* The counter after "Reset restart count if outside window"
CountAfterReset(t, last, count) ==
  IF WindowExpired(t, last) THEN 0 ELSE count

\* stop_service: the entry is deleted unless terminate/wait raised
StopService(proc, stop_ok) ==
  IF proc = "absent" THEN "absent"
  ELSE IF stop_ok THEN "absent"
  ELSE proc

\* start_service returns early when the process it holds is still running
AlreadyRunning(proc) == proc = "alive"

\* start_service past the early return: the process entry it leaves
StartedProcess(popen_ok, survives) ==
  IF popen_ok /\ survives THEN "alive" ELSE "absent"

LogLine(t, event) == [ at |-> t, event |-> event ]

\* The lines "Service started with PID" of the log, oldest first
Launches ==
  SelectSeq(svc_log, LAMBDA l : l.event \in {"start", "restart"})

\* ServiceManager.__init__ and register_service
SvcInit ==
  /\ svc_time = 0
  /\ running = FALSE
  /\ processes = "absent"
  /\ restart_counts = 0
  /\ last_restart = 0
  /\ svc_log = <<>>

---------------------------------------------------------------------------
\* ModelState.__init__, with n handlers able to wait on the gateway at once
InitSlots(n) ==
  /\ now = 0
  /\ active_models = {}
  /\ last_activity = <<>>
  /\ timers = EmptyBag
  /\ tasks = [ i \in 1..n |-> NoTask ]
  /\ idle_timeout = [ m \in {} |-> 0 ]
  /\ resp = NoResponse
  /\ EngineInit
  /\ SvcInit

\* The clock advances by one tick.  A sleeping auto_scale_down task wakes
\* within the tick in which its sleep ends (the event loop is never late by
\* minutes), so the clock does not pass a timer that is due.
Tick ==
  /\ now < MaxTime
  /\ \A tm \in BagToSet(timers) : tm.due > now
  /\ now' = now + 1
  /\ resp' = NoResponse
  /\ UNCHANGED << active_models, last_activity, timers, tasks, idle_timeout >>
  /\ UNCHANGED << engVars, svcVars >>

\* POST /heartbeat/{model_id}
Heartbeat(id) ==
  /\ last_activity' = LaSet(last_activity, id, now)
  /\ resp' = NoResponse
  /\ UNCHANGED << now, active_models, timers, tasks, idle_timeout >>
  /\ UNCHANGED << engVars, svcVars >>

\* scale_up_model after evict_idle_models has returned: the second
\* can_schedule_model check decides between 503 and the scale-up call.
AfterEviction(i, m, tmo, act, pre) ==
  IF CanSchedule(act, m)
  THEN /\ tasks' = [tasks EXCEPT ![i] = UpTask(m, tmo, "scale", <<>>, 0, pre)]
       /\ resp' = NoResponse
  ELSE /\ tasks' = [tasks EXCEPT ![i] = NoTask]
       /\ resp' = Response("scale_up", m, 503, pre)

\* POST /scale with replicas > 0: scale_up_model up to its first await.
ScaleUpStart(m, tmo) ==
  /\ HasFreeSlot
  /\ TimerBudget
  /\ IF m \notin DOMAIN MODELS
     THEN /\ resp' = Response("scale_up", m, 404, active_models)
          /\ UNCHANGED tasks
     ELSE IF CanSchedule(active_models, m)
     THEN /\ tasks' = [tasks EXCEPT ![FreeSlot] =
                         UpTask(m, tmo, "scale", <<>>, 0, active_models)]
          /\ resp' = NoResponse
     ELSE LET victims == NextVictims(IdleModels(active_models, last_activity, now))
          IN  IF victims = <<>>
              THEN AfterEviction(FreeSlot, m, tmo, active_models, active_models)
              ELSE /\ tasks' = [tasks EXCEPT ![FreeSlot] =
                                  UpTask(m, tmo, "evict", victims, 0, active_models)]
                   /\ resp' = NoResponse
  /\ UNCHANGED << now, active_models, last_activity, timers, idle_timeout >>
  /\ UNCHANGED << engVars, svcVars >>

\* evict_idle_models resumes: scale_deployment(victim, 0) has answered.
EvictReturn(i, ok) ==
  /\ tasks[i].kind = "up"
  /\ tasks[i].pc = "evict"
  /\ LET tk    == tasks[i]
         v     == Head(tk.victims)
         act   == IF ok THEN active_models \ {v} ELSE active_models
         freed == IF ok THEN tk.freed + MODELS[v].vram_gb ELSE tk.freed
         rest  == IF freed >= MODELS[tk.model].vram_gb
                  THEN <<>>
                  ELSE NextVictims(Tail(tk.victims))
     IN  /\ active_models' = act
         /\ idle_timeout' = Forget(idle_timeout, act)
         /\ IF rest # <<>>
            THEN /\ tasks' = [tasks EXCEPT ![i] =
                                UpTask(tk.model, tk.timeout, "evict", rest,
                                       freed, tk.pre)]
                 /\ resp' = NoResponse
            ELSE AfterEviction(i, tk.model, tk.timeout, act, tk.pre)
  /\ UNCHANGED << now, last_activity, timers >>
  /\ UNCHANGED << engVars, svcVars >>

\* scale_up_model resuming without looking at what scale_deployment answered
ScaleUpReturnUnchecked(i, ok) ==
  /\ tasks[i].kind = "up"
  /\ tasks[i].pc = "scale"
  /\ LET tk == tasks[i]
         m  == tk.model
     IN  /\ active_models' = active_models \cup {m}
         /\ last_activity' = LaSet(last_activity, m, now)
         /\ timers' = timers (+) SetToBag({[ model |-> m,
                                             due |-> now + SleepTicks(tk.timeout),
                                             timeout |-> tk.timeout ]})
         /\ idle_timeout' = [ x \in DOMAIN idle_timeout \cup {m} |->
                                IF x = m THEN tk.timeout ELSE idle_timeout[x] ]
         /\ tasks' = [tasks EXCEPT ![i] = NoTask]
         /\ resp' = Response("scale_up", m, IF ok THEN 200 ELSE 500, tk.pre)
  /\ UNCHANGED now
  /\ UNCHANGED << engVars, svcVars >>

\* scale_up_model resumes: scale_deployment(config.name, 1) has answered.
ScaleUpReturn(i, ok) ==
  /\ tasks[i].kind = "up"
  /\ tasks[i].pc = "scale"
  /\ LET tk == tasks[i]
         m  == tk.model
     IN  IF ok
         THEN /\ active_models' = active_models \cup {m}
              /\ last_activity' = LaSet(last_activity, m, now)
              /\ timers' = timers (+) SetToBag({[ model |-> m,
                                                  due |-> now + SleepTicks(tk.timeout),
                                                  timeout |-> tk.timeout ]})
              /\ idle_timeout' = [ x \in DOMAIN idle_timeout \cup {m} |->
                                     IF x = m THEN tk.timeout ELSE idle_timeout[x] ]
              /\ tasks' = [tasks EXCEPT ![i] = NoTask]
              /\ resp' = Response("scale_up", m, 200, tk.pre)
         ELSE /\ tasks' = [tasks EXCEPT ![i] = NoTask]
              /\ resp' = Response("scale_up", m, 500, tk.pre)
              /\ UNCHANGED << active_models, last_activity, timers, idle_timeout >>
  /\ UNCHANGED now
  /\ UNCHANGED << engVars, svcVars >>

\* POST /scale with replicas = 0: scale_down_model up to its await.
ScaleDownStart(m) ==
  /\ HasFreeSlot
  /\ IF ScaleDownRefuses(m)
     THEN /\ resp' = Response("scale_down", m, 500, {})
          /\ UNCHANGED tasks
     ELSE /\ tasks' = [tasks EXCEPT ![FreeSlot] = DownTask("down", m)]
          /\ resp' = NoResponse
  /\ UNCHANGED << now, active_models, last_activity, timers, idle_timeout >>
  /\ UNCHANGED << engVars, svcVars >>

\* scale_down_model resuming without popping the model from active_models
ScaleDownReturnKeepsModel(i, ok) ==
  /\ tasks[i].kind = "down"
  /\ tasks' = [tasks EXCEPT ![i] = NoTask]
  /\ resp' = Response("scale_down", tasks[i].model, IF ok THEN 200 ELSE 500, {})
  /\ UNCHANGED << now, active_models, idle_timeout, last_activity, timers >>
  /\ UNCHANGED << engVars, svcVars >>

\* scale_down_model (from POST /scale) resumes after scale_deployment(name, 0).
ScaleDownReturn(i, ok) ==
  /\ tasks[i].kind = "down"
  /\ LET m   == tasks[i].model
         act == IF ok THEN active_models \ {m} ELSE active_models
     IN  /\ active_models' = act
         /\ idle_timeout' = Forget(idle_timeout, act)
         /\ tasks' = [tasks EXCEPT ![i] = NoTask]
         /\ resp' = Response("scale_down", m, IF ok THEN 200 ELSE 500, {})
  /\ UNCHANGED << now, last_activity, timers >>
  /\ UNCHANGED << engVars, svcVars >>

\* auto_scale_down wakes from asyncio.sleep.
TimerFire(tm) ==
  /\ BagIn(tm, timers)
  /\ now >= tm.due
  /\ LET m    == tm.model
         rest == timers (-) SetToBag({tm})
     IN  IF LaHas(last_activity, m)
            /\ ElapsedMinutes(last_activity, m, now) < tm.timeout
         THEN LET remaining == tm.timeout - ElapsedMinutes(last_activity, m, now)
              IN  /\ timers' = rest (+) SetToBag({[ model |-> m,
                                                    due |-> now + SleepTicks(remaining),
                                                    timeout |-> remaining ]})
                  /\ UNCHANGED tasks
         ELSE IF ScaleDownRefuses(m)
         THEN /\ timers' = rest
              /\ UNCHANGED tasks
         ELSE /\ HasFreeSlot
              /\ timers' = rest
              /\ tasks' = [tasks EXCEPT ![FreeSlot] = DownTask("reap", m)]
  /\ resp' = NoResponse
  /\ UNCHANGED << now, active_models, last_activity, idle_timeout >>
  /\ UNCHANGED << engVars, svcVars >>

\* scale_down_model (from auto_scale_down) resumes after scale_deployment(name, 0).
ReapReturn(i, ok) ==
  /\ tasks[i].kind = "reap"
  /\ LET m   == tasks[i].model
         act == IF ok THEN active_models \ {m} ELSE active_models
     IN  /\ active_models' = act
         /\ idle_timeout' = Forget(idle_timeout, act)
         /\ tasks' = [tasks EXCEPT ![i] = NoTask]
  /\ resp' = NoResponse
  /\ UNCHANGED << now, last_activity, timers >>
  /\ UNCHANGED << engVars, svcVars >>

---------------------------------------------------------------------------
(* inference_server.py: handlers                                           *)

\* run_forecast from the semaphore to its first suspension: the run record
\* is made, get_model evicts and loads, and the run either suspends in
\* asyncio.to_thread or fails and gives the permit back.
RunStart(m, k, fail) ==
  LET gm == IF fail = "parse"
            THEN [ loaded |-> loaded_models, meta |-> model_metadata, ok |-> FALSE ]
            ELSE GetModel(ModelManager, m, k, fail # "load", now)
      ok == gm.ok /\ fail = "none"
  IN  /\ run_counter' = run_counter + 1
      /\ active_runs' = RunsPut(active_runs,
                          [ run_id |-> RunId(run_counter, now),
                            model  |-> m,
                            status |-> IF ok THEN "running" ELSE "failed",
                            pc     |-> IF ok THEN "fetch" ELSE "done" ])
      /\ loaded_models' = gm.loaded
      /\ model_metadata' = gm.meta
      /\ sem_value' = IF ok THEN sem_value - 1 ELSE sem_value

\* POST /forecast finding a permit: run_forecast starts at once.
ForecastAcquire(m, k, fail) ==
  /\ Len(active_runs) + Len(sem_waiters) < MaxRuns
  /\ ~SemLocked(sem_value)
  /\ k <= Cardinality(loaded_models)
  /\ RunStart(m, k, fail)
  /\ UNCHANGED sem_waiters
  /\ UNCHANGED << orchVars, svcVars >>

\* POST /forecast finding no permit, or older requests waiting: it queues.
ForecastQueue(m) ==
  /\ Len(active_runs) + Len(sem_waiters) < MaxRuns
  /\ SemLocked(sem_value) \/ sem_waiters # <<>>
  /\ sem_waiters' = Append(sem_waiters, m)
  /\ UNCHANGED << loaded_models, model_metadata, sem_value, run_counter,
                  active_runs >>
  /\ UNCHANGED << orchVars, svcVars >>

\* The oldest queued run_forecast is woken and takes the permit.
ForecastResume(k, fail) ==
  /\ sem_waiters # <<>>
  /\ ~SemLocked(sem_value)
  /\ k <= Cardinality(loaded_models)
  /\ RunStart(Head(sem_waiters), k, fail)
  /\ sem_waiters' = Tail(sem_waiters)
  /\ UNCHANGED << orchVars, svcVars >>

\* The task of a queued POST /forecast is cancelled (the server drops the
\* request): CancelledError is raised out of semaphore.acquire(), before
\* run_forecast has made a run_id or a record.
ForecastCancel(j) ==
  /\ j \in 1..Len(sem_waiters)
  /\ sem_waiters' = SubSeq(sem_waiters, 1, j - 1)
                      \o SubSeq(sem_waiters, j + 1, Len(sem_waiters))
  /\ UNCHANGED << loaded_models, model_metadata, sem_value, run_counter,
                  active_runs >>
  /\ UNCHANGED << orchVars, svcVars >>

\* An exception reaching run_forecast's except block for any record,
\* finished or not
FetchReturnAnyRun(i, ok) ==
  /\ i \in 1..Len(active_runs)
  /\ IF ok
     THEN /\ active_runs[i].pc = "fetch"
          /\ active_runs' = [active_runs EXCEPT ![i].pc = "infer"]
          /\ UNCHANGED sem_value
     ELSE /\ active_runs' = [active_runs EXCEPT ![i].status = "failed",
                                                ![i].pc = "done"]
          /\ sem_value' = sem_value + 1
  /\ UNCHANGED << loaded_models, model_metadata, sem_waiters, run_counter >>
  /\ UNCHANGED << orchVars, svcVars >>

\* fetch_initial_conditions returns or raises.
FetchReturn(i, ok) ==
  /\ i \in 1..Len(active_runs)
  /\ active_runs[i].pc = "fetch"
  /\ IF ok
     THEN /\ active_runs' = [active_runs EXCEPT ![i].pc = "infer"]
          /\ UNCHANGED sem_value
     ELSE /\ active_runs' = [active_runs EXCEPT ![i].status = "failed",
                                                ![i].pc = "done"]
          /\ sem_value' = sem_value + 1
  /\ UNCHANGED << loaded_models, model_metadata, sem_waiters, run_counter >>
  /\ UNCHANGED << orchVars, svcVars >>

\* _run_model_inference raising without the permit being given back
InferReturnLeaksPermit(i, ok) ==
  /\ i \in 1..Len(active_runs)
  /\ active_runs[i].pc = "infer"
  /\ active_runs' = [active_runs EXCEPT
                       ![i].status = IF ok THEN "completed" ELSE "failed",
                       ![i].pc = "done"]
  /\ sem_value' = IF ok THEN sem_value + 1 ELSE sem_value
  /\ UNCHANGED << loaded_models, model_metadata, sem_waiters, run_counter >>
  /\ UNCHANGED << orchVars, svcVars >>

\* _run_model_inference returns or raises.
InferReturn(i, ok) ==
  /\ i \in 1..Len(active_runs)
  /\ active_runs[i].pc = "infer"
  /\ active_runs' = [active_runs EXCEPT
                       ![i].status = IF ok THEN "completed" ELSE "failed",
                       ![i].pc = "done"]
  /\ sem_value' = sem_value + 1
  /\ UNCHANGED << loaded_models, model_metadata, sem_waiters, run_counter >>
  /\ UNCHANGED << orchVars, svcVars >>

\* POST /models/{model_name}/load
LoadModelEndpoint(m, k, ok) ==
  /\ k <= Cardinality(loaded_models)
  /\ LET gm == GetModel(ModelManager, m, k, ok, now)
     IN  /\ loaded_models' = gm.loaded
         /\ model_metadata' = gm.meta
  /\ UNCHANGED << sem_value, sem_waiters, run_counter, active_runs >>
  /\ UNCHANGED << orchVars, svcVars >>

\* POST /models/{model_name}/unload
UnloadModelEndpoint(m) ==
  /\ LET mm == UnloadModel(ModelManager, m)
     IN  /\ loaded_models' = mm.loaded
         /\ model_metadata' = mm.meta
  /\ UNCHANGED << sem_value, sem_waiters, run_counter, active_runs >>
  /\ UNCHANGED << orchVars, svcVars >>

---------------------------------------------------------------------------
(* service_manager.py: steps of the manager                                *)

\* start_all: running is set, the service is started, the monitor begins
StartAll(popen_ok, survives) ==
  /\ ~running
  /\ svc_log = <<>>
  /\ svc_time = 0
  /\ running' = TRUE
  /\ processes' = StartedProcess(popen_ok, survives)
  /\ last_restart' = IF popen_ok THEN svc_time ELSE last_restart
  /\ svc_log' = IF popen_ok THEN Append(svc_log, LogLine(svc_time, "start"))
                ELSE svc_log
  /\ UNCHANGED << svc_time, restart_counts >>
  /\ UNCHANGED << orchVars, engVars >>

\* The managed process ends on its own
ProcessExits ==
  /\ running
  /\ processes = "alive"
  /\ processes' = "exited"
  /\ UNCHANGED << svc_time, running, restart_counts, last_restart, svc_log >>
  /\ UNCHANGED << orchVars, engVars >>

\* A monitor pass that finds the service healthy, and the sleep that ends it
MonitorHealthy ==
  /\ running
  /\ svc_time < MaxSvcTime
  /\ processes = "alive"
  /\ svc_time' = svc_time + MonitorSleep
  /\ UNCHANGED << running, processes, restart_counts, last_restart, svc_log >>
  /\ UNCHANGED << orchVars, engVars >>

\* A monitor pass that finds the service unhealthy (no live process, or the
\* health URL fails) and restarts it: restart_service, then the sleep
MonitorRestart(stop_ok, d, popen_ok, survives) ==
  LET count == CountAfterReset(svc_time, last_restart, restart_counts)
      stopped == StopService(processes, stop_ok)
      t == svc_time + d + restart_delay
      launched == ~AlreadyRunning(stopped) /\ popen_ok
  IN  /\ running
      /\ svc_time < MaxSvcTime
      /\ UnderRestartLimit(count)
      /\ restart_counts' = count + 1
      /\ processes' = IF AlreadyRunning(stopped) THEN stopped
                      ELSE StartedProcess(popen_ok, survives)
      /\ last_restart' = IF launched THEN t ELSE last_restart
      /\ svc_log' = IF launched THEN Append(svc_log, LogLine(t, "restart"))
                    ELSE svc_log
      /\ svc_time' = t + MonitorSleep
      /\ UNCHANGED running
      /\ UNCHANGED << orchVars, engVars >>

\* A monitor pass that finds the service unhealthy with the counter at the
\* limit: "exceeded max restarts, stopping attempts", stop_service, the sleep
MonitorGiveUp(stop_ok) ==
  LET count == CountAfterReset(svc_time, last_restart, restart_counts)
  IN  /\ running
      /\ svc_time < MaxSvcTime
      /\ ~UnderRestartLimit(count)
      /\ restart_counts' = count
      /\ processes' = StopService(processes, stop_ok)
      /\ svc_log' = Append(svc_log, LogLine(svc_time, "gave_up"))
      /\ svc_time' = svc_time + MonitorSleep
      /\ UNCHANGED << running, last_restart >>
      /\ UNCHANGED << orchVars, engVars >>

\* stop_all, from cleanup or the KeyboardInterrupt of main
StopAll ==
  /\ running
  /\ running' = FALSE
  /\ processes' = "absent"
  /\ UNCHANGED << svc_time, restart_counts, last_restart, svc_log >>
  /\ UNCHANGED << orchVars, engVars >>

---------------------------------------------------------------------------
(* Spec: the orchestrator serving aurora and graphcast, with up to         *)
(* MaxTasks handlers suspended on the gateway at once.                     *)

Init == InitSlots(MaxTasks)

Next ==
  \/ Tick
  \/ \E id \in HeartbeatIds : Heartbeat(id)
  \/ \E m \in ScaleIds, tmo \in TimeoutChoices : ScaleUpStart(m, tmo)
  \/ \E i \in Slots, ok \in BOOLEAN : EvictReturn(i, ok)
  \/ \E i \in Slots, ok \in BOOLEAN : ScaleUpReturn(i, ok)
  \/ \E m \in ScaleIds : ScaleDownStart(m)
  \/ \E i \in Slots, ok \in BOOLEAN : ScaleDownReturn(i, ok)
  \/ \E tm \in BagToSet(timers) : TimerFire(tm)
  \/ \E i \in Slots, ok \in BOOLEAN : ReapReturn(i, ok)

Spec == Init /\ [][Next]_vars

(* SpecSeq: the same clients, one request at a time (a handler is admitted *)
(* only when no other handler waits on the gateway).                       *)

InitSeq == InitSlots(1)

SpecSeq == InitSeq /\ [][Next]_vars

(* SpecTiers: the always-on models and one on-demand model, one request at *)
(* a time.                                                                 *)

NextTiers ==
  \/ Tick
  \/ \E id \in TierHeartbeatIds : Heartbeat(id)
  \/ \E m \in TierScaleIds, tmo \in TimeoutChoices : ScaleUpStart(m, tmo)
  \/ \E i \in Slots, ok \in BOOLEAN : EvictReturn(i, ok)
  \/ \E i \in Slots, ok \in BOOLEAN : ScaleUpReturn(i, ok)
  \/ \E m \in TierScaleIds : ScaleDownStart(m)
  \/ \E i \in Slots, ok \in BOOLEAN : ScaleDownReturn(i, ok)
  \/ \E tm \in BagToSet(timers) : TimerFire(tm)
  \/ \E i \in Slots, ok \in BOOLEAN : ReapReturn(i, ok)

SpecTiers == InitSeq /\ [][NextTiers]_vars

(* SpecPair: two on-demand models that fit together, one request at a     *)
(* time.                                                                   *)

NextPair ==
  \/ Tick
  \/ \E id \in PairHeartbeatIds : Heartbeat(id)
  \/ \E m \in PairScaleIds, tmo \in TimeoutChoices : ScaleUpStart(m, tmo)
  \/ \E i \in Slots, ok \in BOOLEAN : EvictReturn(i, ok)
  \/ \E i \in Slots, ok \in BOOLEAN : ScaleUpReturn(i, ok)
  \/ \E m \in PairScaleIds : ScaleDownStart(m)
  \/ \E i \in Slots, ok \in BOOLEAN : ScaleDownReturn(i, ok)
  \/ \E tm \in BagToSet(timers) : TimerFire(tm)
  \/ \E i \in Slots, ok \in BOOLEAN : ReapReturn(i, ok)

SpecPair == InitSeq /\ [][NextPair]_vars

(* SpecReaper: the orchestrator with no heartbeats, one request at a time, *)
(* under fairness: the clock advances, a sleeping auto_scale_down task     *)
(* whose time has come wakes, and the gateway answers every call, within   *)
(* the tick in which it was made.  Models are activated early enough for   *)
(* their timer to end before the clock stops.                              *)

GatewayReturn ==
  \E i \in Slots, ok \in BOOLEAN :
    \/ ScaleUpReturn(i, ok)
    \/ ScaleDownReturn(i, ok)
    \/ ReapReturn(i, ok)

\* The clock advances while no handler waits on the gateway.
ReaperTick ==
  /\ \A i \in Slots : tasks[i].kind = "none"
  /\ Tick

NextReaper ==
  \/ ReaperTick
  \/ \E m \in ScaleIds, tmo \in TimeoutChoices :
       /\ now + SleepTicks(tmo) <= MaxTime
       /\ ScaleUpStart(m, tmo)
  \/ \E i \in Slots, ok \in BOOLEAN : ScaleUpReturn(i, ok)
  \/ \E m \in ScaleIds : ScaleDownStart(m)
  \/ \E i \in Slots, ok \in BOOLEAN : ScaleDownReturn(i, ok)
  \/ \E tm \in BagToSet(timers) : TimerFire(tm)
  \/ \E i \in Slots, ok \in BOOLEAN : ReapReturn(i, ok)

SpecReaper ==
  /\ InitSeq
  /\ [][NextReaper]_vars
  /\ SF_vars(ReaperTick)
  /\ SF_vars(\E tm \in BagToSet(timers) : TimerFire(tm))
  /\ WF_vars(GatewayReturn)

(* SpecEngine: the inference server, with the orchestrator at rest.        *)

EvictChoices == 0..Cardinality(EngineModels)

\* The clock of the inference server's host advances by one tick.
EngineTick ==
  /\ now < MaxEngineTime
  /\ Tick

NextEngine ==
  \/ EngineTick
  \/ \E m \in ForecastModels, k \in EvictChoices, fail \in FailChoices :
       ForecastAcquire(m, k, fail)
  \/ \E m \in ForecastModels : ForecastQueue(m)
  \/ \E k \in EvictChoices, fail \in FailChoices : ForecastResume(k, fail)
  \/ \E j \in 1..MaxRuns : ForecastCancel(j)
  \/ \E i \in 1..MaxRuns, ok \in BOOLEAN : FetchReturn(i, ok)
  \/ \E i \in 1..MaxRuns, ok \in BOOLEAN : InferReturn(i, ok)
  \/ \E m \in EngineModels, k \in EvictChoices, ok \in BOOLEAN :
       LoadModelEndpoint(m, k, ok)
  \/ \E m \in EngineModels : UnloadModelEndpoint(m)

SpecEngine == InitSeq /\ [][NextEngine]_vars

(* SpecSvc: the service manager with its one registered service           *)

NextSvc ==
  \/ \E popen_ok \in BOOLEAN, survives \in BOOLEAN : StartAll(popen_ok, survives)
  \/ ProcessExits
  \/ MonitorHealthy
  \/ \E stop_ok \in BOOLEAN, d \in StopTicks, popen_ok \in BOOLEAN,
        survives \in BOOLEAN : MonitorRestart(stop_ok, d, popen_ok, survives)
  \/ \E stop_ok \in BOOLEAN : MonitorGiveUp(stop_ok)
  \/ StopAll

SpecSvc == InitSeq /\ [][NextSvc]_vars

(* SpecRuns: forecasts only, under fairness: a run suspended in             *)
(* asyncio.to_thread is resumed (the fetch or the inference ends), and a   *)
(* queued run_forecast is woken when a permit is free.                     *)

RunReturn ==
  \E i \in 1..MaxRuns, ok \in BOOLEAN : FetchReturn(i, ok) \/ InferReturn(i, ok)

NextRuns ==
  \/ EngineTick
  \/ \E m \in ForecastModels, k \in EvictChoices, fail \in FailChoices :
       ForecastAcquire(m, k, fail)
  \/ \E m \in ForecastModels : ForecastQueue(m)
  \/ \E k \in EvictChoices, fail \in FailChoices : ForecastResume(k, fail)
  \/ \E i \in 1..MaxRuns, ok \in BOOLEAN : FetchReturn(i, ok)
  \/ \E i \in 1..MaxRuns, ok \in BOOLEAN : InferReturn(i, ok)

SpecRuns ==
  /\ InitSeq
  /\ [][NextRuns]_vars
  /\ WF_vars(RunReturn)
  /\ WF_vars(\E k \in EvictChoices, fail \in FailChoices : ForecastResume(k, fail))

(* SpecSmallGpu: the inference server on a host whose GPU never has the    *)
(* memory _get_required_memory asks for atlas, whatever is unloaded: every *)
(* reading of _get_available_memory during a load of atlas is short, so    *)
(* _ensure_memory_available unloads every loaded model.                    *)

ShortModels == {"atlas"}

NextSmallGpu ==
  \/ EngineTick
  \/ \E m \in ForecastModels, k \in EvictChoices, fail \in FailChoices :
       ForecastAcquire(m, k, fail)
  \/ \E m \in ForecastModels : ForecastQueue(m)
  \/ \E k \in EvictChoices, fail \in FailChoices : ForecastResume(k, fail)
  \/ \E j \in 1..MaxRuns : ForecastCancel(j)
  \/ \E i \in 1..MaxRuns, ok \in BOOLEAN : FetchReturn(i, ok)
  \/ \E i \in 1..MaxRuns, ok \in BOOLEAN : InferReturn(i, ok)
  \/ \E m \in EngineModels, k \in EvictChoices, ok \in BOOLEAN :
       /\ m \in ShortModels => k = Cardinality(loaded_models)
       /\ LoadModelEndpoint(m, k, ok)
  \/ \E m \in EngineModels : UnloadModelEndpoint(m)

SpecSmallGpu == InitSeq /\ [][NextSmallGpu]_vars

TypeOK ==
  /\ now \in 0..MaxTime
  /\ active_models \subseteq DOMAIN MODELS

---------------------------------------------------------------------------
(* Properties of the orchestrator                                          *)

\* C1: in every reachable state the vram_gb of the models in the active set
\* sums to at most MAX_VRAM_GB, i.e. the available VRAM is never negative,
\* whatever the interleaving of admissions, scale-downs, evictions and
\* reaper steps.
C1_BudgetNeverExceeded ==
  /\ SumVram(active_models) <= MAX_VRAM_GB
  /\ GetAvailableVram(active_models) >= 0

\* C5: whenever an auto_scale_down timer of an active model fires while the
\* time since the model's last activity is below the model's idle timeout,
\* the model is not scaled down and a timer is re-armed for
\* idle_timeout - elapsed.  (Stated for a model with a single pending timer.)
C5_ReaperRespectsIdleTimeout ==
  [][ \A tm \in BagToSet(timers) :
        ( /\ TimerFire(tm)
          /\ tm.model \in active_models
          /\ \A o \in BagToSet(timers) : o.model = tm.model => o = tm
          /\ timers[tm] = 1
          /\ LaHas(last_activity, tm.model)
          /\ ElapsedMinutes(last_activity, tm.model, now) < idle_timeout[tm.model] )
        =>
        ( /\ tasks' = tasks
          /\ \E n \in BagToSet(timers') :
               /\ n.model = tm.model
               /\ n.due = now + SleepTicks(idle_timeout[tm.model]
                            - ElapsedMinutes(last_activity, tm.model, now)) )
    ]_vars

\* C6: a heartbeat for a model that is not active changes nothing: not the
\* active set, not the last-activity records, no timer, no handler.
C6_HeartbeatInactiveNoOp ==
  [][ \A id \in HeartbeatIds :
        (Heartbeat(id) /\ id \notin active_models)
        => UNCHANGED << active_models, last_activity, timers, tasks,
                        idle_timeout >>
    ]_vars

C8_AlwaysOnBlocksAdmission ==
  [][ \A m \in TierScaleIds, tmo \in TimeoutChoices :
        ( /\ ScaleUpStart(m, tmo)
          /\ TierOf(m) = ON_DEMAND
          /\ active_models # {}
          /\ \A a \in active_models : TierOf(a) = ALWAYS_ON
          /\ MODELS[m].vram_gb > MAX_VRAM_GB - SumVram(active_models) )
        =>
        ( /\ resp' = Response("scale_up", m, 503, active_models)
          /\ active_models' = active_models
          /\ m \notin active_models'
          /\ tasks' = tasks )
    ]_vars

\* The always-on models are the only active ones and have been idle for
\* more than the idle threshold when the request for aurora is refused.
C8_Witness ==
  /\ resp = Response("scale_up", "aurora", 503, {"fcn3", "stormscope"})
  /\ active_models = {"fcn3", "stormscope"}
  /\ \A a \in active_models :
       (now - LaGet(last_activity, a)) * TickMinutes > IDLE_THRESHOLD_MINUTES

\* C9: at most one on-demand model is in the active set at any time.
C9_OneOnDemandAtATime ==
  Cardinality({ m \in active_models : TierOf(m) = ON_DEMAND }) <= 1

\* C10: a request to activate a model that is already active succeeds at
\* once and only refreshes its last activity: no gateway call is started, no
\* model leaves the active set and no further auto_scale_down task is made.
C10_ReactivationOnlyRefreshes ==
  [][ \A m \in ScaleIds, tmo \in TimeoutChoices :
        (ScaleUpStart(m, tmo) /\ m \in active_models)
        =>
        ( /\ resp'.op = "scale_up"
          /\ resp'.code = 200
          /\ LaGet(last_activity', m) = now
          /\ tasks' = tasks
          /\ active_models' = active_models
          /\ timers' = timers )
    ]_vars

\* C11: when scale_deployment(name, 1) fails, the request is answered 500
\* (activation failed) and nothing is committed: the active set and the
\* available VRAM are as before, the requested model is not added, no
\* last-activity record is written and no auto_scale_down task is created.
C11_FailedActivationCommitsNothing ==
  [][ \A i \in Slots :
        ScaleUpReturn(i, FALSE)
        => ( /\ resp' = Response("scale_up", tasks[i].model, 500, tasks[i].pre)
             /\ active_models' = active_models
             /\ GetAvailableVram(active_models') = GetAvailableVram(active_models)
             /\ last_activity' = last_activity
             /\ timers' = timers )
    ]_vars

\* A request for aurora has been answered 500 and aurora is not active, has
\* no last-activity record and no timer.
C11_Witness ==
  /\ resp.op = "scale_up"
  /\ resp.model = "aurora"
  /\ resp.code = 500
  /\ "aurora" \notin active_models
  /\ ~LaHas(last_activity, "aurora")
  /\ \A tm \in BagToSet(timers) : tm.model # "aurora"

\* C13: a scale-down of an on-demand model that has reached the gateway
\* always ends with the model out of the active set (and its VRAM free),
\* whether scale_deployment(name, 0) succeeded or failed; this holds for
\* POST /scale with replicas = 0, for the reaper and for evictions.
C13_ScaleDownAlwaysConverges ==
  [][ \A i \in Slots, ok \in BOOLEAN :
        /\ (ScaleDownReturn(i, ok) \/ ReapReturn(i, ok))
              => tasks[i].model \notin active_models'
        /\ EvictReturn(i, ok)
              => Head(tasks[i].victims) \notin active_models'
    ]_vars

\* C14: a scale-down of an active always-on model, asked for by POST /scale
\* with replicas = 0 or by an auto_scale_down task whose time has come, is
\* refused: the model stays active, the gateway is not called (no handler
\* is suspended on it) and the available VRAM is as before; the explicit
\* request is answered 500.
C14_AlwaysOnScaleDownRefused ==
  [][ /\ \A m \in TierScaleIds :
           (ScaleDownStart(m) /\ TierOf(m) = ALWAYS_ON /\ m \in active_models)
           => ( /\ resp' = Response("scale_down", m, 500, {})
                /\ active_models' = active_models
                /\ GetAvailableVram(active_models') = GetAvailableVram(active_models)
                /\ tasks' = tasks
                /\ last_activity' = last_activity
                /\ timers' = timers )
      /\ \A tm \in BagToSet(timers) :
           (TimerFire(tm) /\ TierOf(tm.model) = ALWAYS_ON
              /\ tm.model \in active_models)
           => ( /\ active_models' = active_models
                /\ GetAvailableVram(active_models') = GetAvailableVram(active_models)
                /\ tasks' = tasks
                /\ last_activity' = last_activity )
    ]_vars

\* fcn3 is active, its auto_scale_down task has come and gone, and an
\* explicit scale-down of it has just been refused.
C14_Witness ==
  /\ resp = Response("scale_down", "fcn3", 500, {})
  /\ "fcn3" \in active_models
  /\ \A tm \in BagToSet(timers) : tm.model # "fcn3"

\* C15: a scale-down of an on-demand model that is not active is a no-op
\* and not an error: when the request completes the active set and the
\* available VRAM are as before and the answer is 200.
C15_InactiveScaleDownIsNoOp ==
  [][ \A i \in Slots, ok \in BOOLEAN :
        (ScaleDownReturn(i, ok) /\ tasks[i].model \notin active_models)
        => ( /\ active_models' = active_models
             /\ GetAvailableVram(active_models') = GetAvailableVram(active_models)
             /\ resp' = Response("scale_down", tasks[i].model, 200, {}) )
    ]_vars

\* C16: scaling a model down and at once up again restores its reservation.
\* With one request at a time: (1) a successful scale-down of m answers 200
\* and takes exactly m out of the active set; (2) a scale-up of m that
\* follows at once finds m inactive and, if m fits the available VRAM, goes
\* straight to the gateway without evicting anything; (3) while it waits
\* the active set does not change; (4) when the gateway succeeds the answer
\* is 200 and the active set is the one the request found plus m, so the
\* available VRAM is what it was before the scale-down.
C16_ScaleDownUpRoundTrip ==
  [][ /\ \A i \in Slots :
           ScaleDownReturn(i, TRUE)
           => ( /\ active_models' = active_models \ {tasks[i].model}
                /\ resp' = Response("scale_down", tasks[i].model, 200, {}) )
      /\ \A m \in ScaleIds, tmo \in TimeoutChoices :
           ( /\ ScaleUpStart(m, tmo)
             /\ resp = Response("scale_down", m, 200, {})
             /\ CanSchedule(active_models, m) )
           => ( /\ m \notin active_models
                /\ \E i \in Slots :
                     tasks'[i] = UpTask(m, tmo, "scale", <<>>, 0, active_models) )
      /\ \A i \in Slots :
           (tasks[i].kind = "up" /\ tasks[i].pc = "scale"
              /\ tasks'[i] = tasks[i])
           => active_models' = active_models
      /\ \A i \in Slots :
           (ScaleUpReturn(i, TRUE) /\ tasks[i].model \notin tasks[i].pre
              /\ CanSchedule(tasks[i].pre, tasks[i].model))
           => ( /\ resp' = Response("scale_up", tasks[i].model, 200, tasks[i].pre)
                /\ active_models' = tasks[i].pre \cup {tasks[i].model}
                /\ GetAvailableVram(active_models')
                     = GetAvailableVram(tasks[i].pre) - MODELS[tasks[i].model].vram_gb )
    ]_vars

\* aurora has been activated, scaled down and activated again: the second
\* request found nothing active, and the auto_scale_down tasks of both
\* activations are alive.
C16_Witness ==
  /\ resp = Response("scale_up", "aurora", 200, {})
  /\ active_models = {"aurora"}
  /\ GetAvailableVram(active_models) = 12
  /\ BagCardinality(timers) = 2
  /\ \A tm \in BagToSet(timers) : tm.model = "aurora"

\* C17: every pending auto_scale_down task belongs to a model that is
\* active (a task is cancelled when its model is scaled down), and no model
\* has more than one pending task.
C17_OneTimerPerActiveModel ==
  \A tm \in BagToSet(timers) :
    /\ tm.model \in active_models
    /\ timers[tm] = 1
    /\ \A o \in BagToSet(timers) : o.model = tm.model => o = tm

\* C18: an active on-demand model that gets no heartbeat is eventually out
\* of the active set: the reaper scales it down once its idle timeout has
\* passed, given that timers fire and the gateway answers.
C18_IdleModelEventuallyReaped ==
  \A m \in HeartbeatIds :
    (m \in active_models) ~> (m \notin active_models)

\* The ids of PairScaleIds in ascending order of model_id.
PairIdOrder == << "atlas", "corrdiff" >>

\* C23: the victims of an eviction are in least-recently-active order, ties
\* broken by ascending model_id: of two victims the earlier one has the
\* older last activity or, when these are equal, the smaller model_id.
C23_VictimsInLruOrderTiesById ==
  [][ \A m \in PairScaleIds, tmo \in TimeoutChoices, i \in Slots :
        (ScaleUpStart(m, tmo) /\ tasks'[i].kind = "up" /\ tasks'[i].pc = "evict")
        => LET vs == tasks'[i].victims
               Rank(x) == CHOOSE r \in 1..Len(PairIdOrder) : PairIdOrder[r] = x
           IN  \A a, b \in 1..Len(vs) :
                 a < b =>
                   \/ LaGet(last_activity, vs[a]) < LaGet(last_activity, vs[b])
                   \/ /\ LaGet(last_activity, vs[a]) = LaGet(last_activity, vs[b])
                      /\ Rank(vs[a]) < Rank(vs[b])
    ]_vars

\* C24: eviction stops as soon as the requested model fits: when a victim's
\* scale-down has returned and the requested model's vram_gb is within the
\* available VRAM, the request evicts no further model.
C24_EvictsOnlyTheShortfall ==
  [][ \A i \in Slots, ok \in BOOLEAN :
        (EvictReturn(i, ok) /\ CanSchedule(active_models', tasks[i].model))
        => ~(tasks'[i].kind = "up" /\ tasks'[i].pc = "evict")
    ]_vars

\* C25: a scale-up or scale-down of an id that is not in MODELS is answered
\* 404 (not found) and changes nothing: no handler is suspended on the
\* gateway, and the active set, the last-activity records, the timers and
\* the available VRAM are as before.
C25_UnknownIdNotFound ==
  [][ (\/ \E tmo \in TimeoutChoices : ScaleUpStart(UnknownId, tmo)
       \/ ScaleDownStart(UnknownId))
      => ( /\ resp'.model = UnknownId
           /\ resp'.code = 404
           /\ tasks' = tasks
           /\ active_models' = active_models
           /\ last_activity' = last_activity
           /\ timers' = timers
           /\ GetAvailableVram(active_models') = GetAvailableVram(active_models) )
    ]_vars

---------------------------------------------------------------------------
(* Properties of the inference server                                      *)

\* C2: no always-on model is removed from the loaded set by an eviction
\* that an admission triggers (a get_model call of the load endpoint or of
\* a starting run), whatever the shortfall.
C2_AlwaysOnNeverEvicted ==
  [][ ( \/ \E m \in EngineModels, k \in EvictChoices, ok \in BOOLEAN :
             LoadModelEndpoint(m, k, ok)
        \/ \E m \in ForecastModels, k \in EvictChoices, fail \in FailChoices :
             ForecastAcquire(m, k, fail)
        \/ \E k \in EvictChoices, fail \in FailChoices : ForecastResume(k, fail) )
      => \A a \in loaded_models :
           TierOf(a) = ALWAYS_ON => a \in loaded_models'
    ]_vars

\* C3: a model with a run in status "running" is never removed from the
\* loaded set, neither by an eviction nor by an explicit unload.
C3_RunningModelStaysLoaded ==
  [][ \A i \in RunningRuns :
        active_runs[i].model \in loaded_models
        => active_runs[i].model \in loaded_models'
    ]_vars

\* C4: in every reachable state at most max_concurrent_runs run records
\* have status "running", however many runs have been submitted.
C4_ConcurrencyBound ==
  Cardinality(RunningRuns) <= max_concurrent_runs

\* max_concurrent_runs runs are running and a further submitted run waits.
C4_Witness ==
  /\ Cardinality(RunningRuns) = max_concurrent_runs
  /\ sem_waiters # <<>>
  /\ Len(active_runs) + Len(sem_waiters) > max_concurrent_runs

\* C12: when the memory is still short of the requested model's need after
\* every loaded model has been unloaded, the load is refused: the model is
\* absent from the loaded set afterwards.
C12_ShortMemoryRefusesLoad ==
  [][ \A m \in ShortModels, k \in EvictChoices, ok \in BOOLEAN :
        (LoadModelEndpoint(m, k, ok) /\ m \notin loaded_models)
        => m \notin loaded_models'
    ]_vars

\* C19: the caller of POST /forecast holds the run_id of every run that
\* has a record, whatever the run's status, and a failed run is not
\* answered with an error.
C19_SubmitAnswersRunIdAtOnce ==
  \A i \in 1..Len(active_runs) :
    /\ ForecastAnswer(active_runs[i]).run_id = active_runs[i].run_id
    /\ ForecastAnswer(active_runs[i]).code # 500

\* C20: when a queued run is cancelled, a record of status "failed" is made
\* for it, no permit of the semaphore is taken and no model is loaded or
\* unloaded.
C20_CancelledQueuedRunIsRecorded ==
  [][ \A j \in 1..MaxRuns :
        ForecastCancel(j)
        => ( /\ Len(active_runs') = Len(active_runs) + 1
             /\ active_runs'[Len(active_runs')].status = "failed"
             /\ active_runs'[Len(active_runs')].model = sem_waiters[j]
             /\ sem_value' = sem_value
             /\ loaded_models' = loaded_models )
    ]_vars

\* C21: the status of a run record only moves forward: a record stays in
\* active_runs under its run_id, a record that is "completed" or "failed"
\* keeps its status for ever, and no record becomes "running" again.
C21_StatusOnlyMovesForward ==
  [][ \A i \in 1..Len(active_runs) :
        /\ Len(active_runs') >= Len(active_runs)
        /\ active_runs'[i].run_id = active_runs[i].run_id
        /\ active_runs[i].status \in {"completed", "failed"}
             => active_runs'[i].status = active_runs[i].status
        /\ active_runs'[i].status = "running"
             => active_runs[i].status = "running"
    ]_vars

\* A completed run and a failed run are on record while a later run is
\* running.
C21_Witness ==
  /\ \E i \in 1..Len(active_runs) : active_runs[i].status = "completed"
  /\ \E i \in 1..Len(active_runs) : active_runs[i].status = "failed"
  /\ active_runs[Len(active_runs)].status = "running"

\* C22: a run is "running" only while it holds a permit of the semaphore
\* and its model is loaded: the permits taken are as many as the running
\* runs, and the model of every running run is in loaded_models.
C22_RunningHoldsSlotAndModel ==
  /\ sem_value = max_concurrent_runs - Cardinality(RunningRuns)
  /\ \A i \in RunningRuns : active_runs[i].model \in loaded_models

\* C26: the permits of the semaphore taken are always as many as the runs
\* that are running, on every exit path of run_forecast, so all
\* max_concurrent_runs permits are free when no run is running; and every
\* forecast received, queued ones included, eventually has a record with a
\* terminal status.
C26_PermitsReleasedAndQueueDrains ==
  /\ [](sem_value = max_concurrent_runs - Cardinality(RunningRuns))
  /\ \A n \in 1..MaxRuns :
       (Len(active_runs) + Len(sem_waiters) >= n)
         ~> ( /\ Len(active_runs) >= n
              /\ \A i \in 1..n : active_runs[i].status \in {"completed", "failed"} )

\* More forecasts than there are permits have been received and all have
\* ended, some completed and some failed; every permit is free again.
C26_Witness ==
  /\ Len(active_runs) > max_concurrent_runs
  /\ sem_waiters = <<>>
  /\ RunningRuns = {}
  /\ \E i \in 1..Len(active_runs) : active_runs[i].status = "completed"
  /\ \E i \in 1..Len(active_runs) : active_runs[i].status = "failed"
  /\ sem_value = max_concurrent_runs

\* C27: no two records of active_runs have the same run_id, and no record
\* has been overwritten: there are as many records as runs were started.
C27_RunIdsUnique ==
  /\ \A i, j \in 1..Len(active_runs) :
       i # j => active_runs[i].run_id # active_runs[j].run_id
  /\ Len(active_runs) = run_counter

\* Two runs started within the same second are running together.
C27_Witness ==
  \E i, j \in RunningRuns :
    /\ i # j
    /\ active_runs[i].run_id[3] = active_runs[j].run_id[3]
    /\ active_runs[i].run_id # active_runs[j].run_id

\* C28: active_runs holds only runs that are executing: the active_runs
\* figure of /status (the length of the registry) equals the number of runs in
\* the running state, and so is at most max_concurrent_runs.
C28_RegistryHoldsOnlyRunning ==
  /\ Len(active_runs) = Cardinality(RunningRuns)
  /\ Len(active_runs) <= max_concurrent_runs

---------------------------------------------------------------------------
(* Properties of the service manager                                       *)

\* C29: the restart counter of a service never exceeds max_restarts, and in
\* any stretch of consecutive starts that lie at most restart_window apart
\* at most max_restarts of the starts are restarts made by the monitor loop.
C29_RestartsBounded ==
  /\ restart_counts <= max_restarts
  /\ \A i, j \in 1..Len(Launches) :
       ( /\ i <= j
         /\ \A k \in i..(j - 1) :
              Launches[k + 1].at - Launches[k].at <= restart_window )
       => Cardinality({ k \in i..j : Launches[k].event = "restart" })
            <= max_restarts

\* The monitor has restarted the service max_restarts times in a row and then
\* taken the giving-up branch.
C29_Witness ==
  /\ restart_counts = max_restarts
  /\ Len(Launches) > max_restarts
  /\ \A k \in 1..(Len(Launches) - 1) :
       Launches[k + 1].at - Launches[k].at <= restart_window
  /\ svc_log # <<>>
  /\ svc_log[Len(svc_log)].event = "gave_up"

\* C30: once the monitor loop has taken the "exceeded max restarts" branch,
\* the service is never started again while the manager runs: no start is
\* logged after a giving-up line.
C30_NoStartAfterGivingUp ==
  \A i, j \in 1..Len(svc_log) :
    (i < j /\ svc_log[i].event = "gave_up")
      => svc_log[j].event = "gave_up"

====
